---- MODULE Spec2Model ----
(***************************************************************************)
(* Model of the DLinkedList module (src/src/dlinkedlist.c): a doubly       *)
(* linked pool of nodes bounded by front/tail, with the client-visible     *)
(* window list_start..list_end inside it.                                  *)
(*                                                                         *)
(* The heap is a sequence of node records; a node pointer is an index into *)
(* it and Null (0) is the null pointer.  A failed assert() ends the        *)
(* process: status becomes "aborted" and nothing runs afterwards.          *)
(***************************************************************************)
EXTENDS Integers, Sequences, FiniteSets, TLC

\* ---------------------------------------------------------------- bounds
MaxHint == 2
MaxOps  == 4

Null  == 0
NoVal == -1
\* The payloads are opaque pointers that the code stores and returns but never
\* inspects: two distinct non-null payloads tell any two positions apart.
Elems == {1, 2}
Hints == (-1)..MaxHint

VARIABLES list, heap, freed, status, ret, hint, hist, ref

vars == <<list, heap, freed, status, ret, hint, hist, ref>>

\* the handle before DLinkedList_new and after DLinkedList_free
NoList == [front |-> Null, tail |-> Null, list_start |-> Null,
           list_end |-> Null, capacity |-> 0, size |-> 0]

Max(a, b) == IF a >= b THEN a ELSE b

\* ------------------------------------------------------- private helpers
\* Node_new: malloc a node and initialise its three fields
Node_new(h, prev, next, elem) ==
    [heap |-> Append(h, [elem |-> elem, next |-> next, prev |-> prev]),
     node |-> Len(h) + 1]

\* malloc_hint_loop that forgets the back link node->prev = temp
RECURSIVE malloc_hint_loop_no_backlink(_, _, _)
malloc_hint_loop_no_backlink(h, node, i) ==
    IF i < 0 THEN [heap |-> h, node |-> node]
    ELSE LET r    == Node_new(h, Null, node, Null)
             temp == r.node
         IN  malloc_hint_loop_no_backlink(r.heap, temp, i - 1)

\* the for loop of malloc_hint: i runs from hint - 2 down to 0
RECURSIVE malloc_hint_loop(_, _, _)
malloc_hint_loop(h, node, i) ==
    IF i < 0 THEN [heap |-> h, node |-> node]
    ELSE LET r    == Node_new(h, Null, node, Null)
             temp == r.node
         IN  malloc_hint_loop([r.heap EXCEPT ![node].prev = temp], temp, i - 1)

\* malloc_hint: builds the chain, sets list->tail, returns the first node
malloc_hint(l, h, n) ==
    LET r  == Node_new(h, Null, Null, Null)
        l1 == [l EXCEPT !.tail = r.node]
        w  == IF n > 1 THEN malloc_hint_loop(r.heap, r.node, n - 2)
                       ELSE [heap |-> r.heap, node |-> r.node]
    IN  [list |-> l1, heap |-> w.heap, node |-> w.node]

\* node = node->next, i times (a null node is never followed)
RECURSIVE walk_next(_, _, _)
walk_next(h, node, k) ==
    IF k <= 0 \/ node = Null THEN node ELSE walk_next(h, h[node].next, k - 1)

\* node = node->prev, i times
RECURSIVE walk_prev(_, _, _)
walk_prev(h, node, k) ==
    IF k <= 0 \/ node = Null THEN node ELSE walk_prev(h, h[node].prev, k - 1)

\* split_search whose forward loop runs one hop too far (i <= index)
split_search_forward_overshoot(l, h, index) ==
    LET midpoint == l.size \div 2
    IN  IF index < midpoint
        THEN walk_next(h, l.list_start, index + 1)
        ELSE walk_prev(h, l.list_end, (l.size - 1) - index)

\* split_search whose backward loop runs one hop too far (i >= index)
split_search_overshoot(l, h, index) ==
    LET midpoint == l.size \div 2
    IN  IF index < midpoint
        THEN walk_next(h, l.list_start, index)
        ELSE walk_prev(h, l.list_end, l.size - index)

split_search(l, h, index) ==
    LET midpoint == l.size \div 2
    IN  IF index < midpoint
        THEN walk_next(h, l.list_start, index)
        ELSE walk_prev(h, l.list_end, (l.size - 1) - index)

search(l, h, index) ==
    IF index = 0 THEN l.list_start
    ELSE IF index = l.size - 1 THEN l.list_end
    ELSE split_search(l, h, index)

\* the walk split_search makes: the end it starts from and the number of
\* iterations of its loop (i = 0..index-1, or i = size-1 down to index+1)
split_search_walk(l, index) ==
    LET midpoint == l.size \div 2
    IN  IF index < midpoint
        THEN [from |-> "list_start", hops |-> index]
        ELSE [from |-> "list_end", hops |-> (l.size - 1) - index]

\* the walk search makes: none for the two ends of the window
search_walk(l, index) ==
    IF index = 0 THEN [from |-> "list_start", hops |-> 0]
    ELSE IF index = l.size - 1 THEN [from |-> "list_end", hops |-> 0]
    ELSE split_search_walk(l, index)

\* ------------------------------------------------------------- accessors
DLinkedList_length(l) == l.size

\* DLinkedList_get whose upper bound check lets index == size through
DLinkedList_get_inclusive(l, h, index) ==
    IF ~(index >= 0) \/ ~(index <= l.size)
    THEN [abort |-> TRUE, val |-> NoVal]
    ELSE IF l.size = 0 THEN [abort |-> FALSE, val |-> Null]
    ELSE LET node == search(l, h, index)
         IN  IF node = Null THEN [abort |-> TRUE, val |-> NoVal]
             ELSE [abort |-> FALSE, val |-> h[node].elem]

DLinkedList_get(l, h, index) ==
    IF ~(index >= 0) \/ ~(index < l.size)
    THEN [abort |-> TRUE, val |-> NoVal]
    ELSE IF l.size = 0 THEN [abort |-> FALSE, val |-> Null]
    ELSE LET node == search(l, h, index)
         IN  IF node = Null THEN [abort |-> TRUE, val |-> NoVal]
             ELSE [abort |-> FALSE, val |-> h[node].elem]

\* DLinkedList_last reading the last pooled node instead of list_end
DLinkedList_last_of_tail(l, h) ==
    IF l.size = 0 THEN Null ELSE h[l.tail].elem

DLinkedList_last(l, h) ==
    IF l.size = 0 THEN Null ELSE h[l.list_end].elem

DLinkedList_first(l, h) ==
    IF l.size = 0 THEN Null ELSE h[l.list_start].elem

\* --------------------------------------------------------------- setters
Aborted(l, h) == [list |-> l, heap |-> h, abort |-> TRUE]
Done(l, h)    == [list |-> l, heap |-> h, abort |-> FALSE]

\* append_empty that also moves list_end onto the node it wrote
append_empty_moves_end(l, h, elem) ==
    Done([l EXCEPT !.list_end = l.tail], [h EXCEPT ![l.tail].elem = elem])

\* append, size == 0: the element goes into the node at tail
append_empty(l, h, elem) ==
    Done(l, [h EXCEPT ![l.tail].elem = elem])

\* append_grow with the capacity increment forgotten
append_grow_keeps_capacity(l, h, elem) ==
    LET r  == Node_new(h, l.tail, Null, elem)
        h1 == [r.heap EXCEPT ![l.tail].next = r.node]
        l1 == [l EXCEPT !.tail = r.node]
    IN  Done([l1 EXCEPT !.list_end = h1[l1.list_end].next], h1)

\* append, size == capacity: one new node linked after tail
append_grow(l, h, elem) ==
    LET r  == Node_new(h, l.tail, Null, elem)
        h1 == [r.heap EXCEPT ![l.tail].next = r.node]
        l1 == [l EXCEPT !.tail = r.node, !.capacity = @ + 1]
    IN  Done([l1 EXCEPT !.list_end = h1[l1.list_end].next], h1)

\* append, 0 < size < capacity: the pooled node after list_end is reused
append_spare(l, h, elem) ==
    LET node == h[l.list_end].next
    IN  IF node = Null THEN Aborted(l, h)
        ELSE Done([l EXCEPT !.list_end = h[l.list_end].next],
                  [h EXCEPT ![node].elem = elem])

\* DLinkedList_append that grows the pool one insertion too early
DLinkedList_append_early_growth(l, h, elem) ==
    LET r == IF l.size = 0 THEN append_empty(l, h, elem)
             ELSE IF l.size >= l.capacity - 1 THEN append_grow(l, h, elem)
             ELSE append_spare(l, h, elem)
    IN  IF r.abort THEN r ELSE [r EXCEPT !.list.size = @ + 1]

DLinkedList_append(l, h, elem) ==
    LET r == IF l.size = 0 THEN append_empty(l, h, elem)
             ELSE IF l.size = l.capacity THEN append_grow(l, h, elem)
             ELSE append_spare(l, h, elem)
    IN  IF r.abort THEN r ELSE [r EXCEPT !.list.size = @ + 1]

\* prepend, size == 0: the element goes into the node at front
prepend_empty(l, h, elem) ==
    Done(l, [h EXCEPT ![l.front].elem = elem])

\* prepend_grow whose new node is created without its next link
prepend_grow_unlinked(l, h, elem) ==
    LET r  == Node_new(h, Null, Null, elem)
        h1 == [r.heap EXCEPT ![l.front].prev = r.node]
        l1 == [l EXCEPT !.front = r.node, !.capacity = @ + 1]
    IN  Done([l1 EXCEPT !.list_start = h1[l1.list_start].prev], h1)

\* prepend_grow that leaves list_start on the old first node
prepend_grow_keeps_start(l, h, elem) ==
    LET r  == Node_new(h, Null, l.front, elem)
        h1 == [r.heap EXCEPT ![l.front].prev = r.node]
        l1 == [l EXCEPT !.front = r.node, !.capacity = @ + 1]
    IN  Done(l1, h1)

\* prepend, size == capacity: one new node linked before front
prepend_grow(l, h, elem) ==
    LET r  == Node_new(h, Null, l.front, elem)
        h1 == [r.heap EXCEPT ![l.front].prev = r.node]
        l1 == [l EXCEPT !.front = r.node, !.capacity = @ + 1]
    IN  Done([l1 EXCEPT !.list_start = h1[l1.list_start].prev], h1)

\* prepend, 0 < size < capacity: the pooled node before list_start is reused
prepend_spare(l, h, elem) ==
    LET node == h[l.list_start].prev
    IN  IF node = Null THEN Aborted(l, h)
        ELSE Done([l EXCEPT !.list_start = h[l.list_start].prev],
                  [h EXCEPT ![node].elem = elem])

\* DLinkedList_prepend that allocates whenever the list is not empty
DLinkedList_prepend_always_grows(l, h, elem) ==
    LET r == IF l.size = 0 THEN prepend_empty(l, h, elem)
             ELSE prepend_grow(l, h, elem)
    IN  IF r.abort THEN r ELSE [r EXCEPT !.list.size = @ + 1]

DLinkedList_prepend(l, h, elem) ==
    LET r == IF l.size = 0 THEN prepend_empty(l, h, elem)
             ELSE IF l.size = l.capacity THEN prepend_grow(l, h, elem)
             ELSE prepend_spare(l, h, elem)
    IN  IF r.abort THEN r ELSE [r EXCEPT !.list.size = @ + 1]

DLinkedList_set(l, h, elem, index) ==
    IF ~(index >= 0) \/ ~(index <= l.size) THEN Aborted(l, h)
    ELSE IF index = l.size THEN DLinkedList_append(l, h, elem)
    ELSE LET node == search(l, h, index)
         IN  IF node = Null THEN Aborted(l, h)
             ELSE Done(l, [h EXCEPT ![node].elem = elem])

\* --------------------------------------------------------------- removal
\* the three removal functions only void-cast their arguments
DLinkedList_remove(l, h, index) == Done(l, h)

\* DLinkedList_removehi implemented as a shrink of the window at list_end
DLinkedList_removehi_shrinks(l, h) ==
    IF l.size = 0 THEN Done(l, h)
    ELSE Done([l EXCEPT !.size = @ - 1,
                        !.list_end = IF l.size > 1 THEN h[l.list_end].prev ELSE @],
              h)

DLinkedList_removehi(l, h) == Done(l, h)

DLinkedList_removelo(l, h) == Done(l, h)

\* ----------------------------------------------------------- constructor
\* DLinkedList_new that anchors list_end at the last pooled node
DLinkedList_new_end_at_tail(n) ==
    IF ~(n >= 0) THEN [list |-> NoList, heap |-> <<>>, abort |-> TRUE]
    ELSE LET n1 == IF n = 0 THEN n + 1 ELSE n
             l0 == [NoList EXCEPT !.capacity = n1, !.size = 0, !.tail = Null]
             r  == malloc_hint(l0, <<>>, n1)
         IN  [list  |-> [r.list EXCEPT !.front = r.node,
                                       !.list_start = r.node,
                                       !.list_end = r.list.tail],
              heap  |-> r.heap,
              abort |-> FALSE]

DLinkedList_new(n) ==
    IF ~(n >= 0) THEN [list |-> NoList, heap |-> <<>>, abort |-> TRUE]
    ELSE LET n1 == IF n = 0 THEN n + 1 ELSE n
             l0 == [NoList EXCEPT !.capacity = n1, !.size = 0, !.tail = Null]
             r  == malloc_hint(l0, <<>>, n1)
         IN  [list  |-> [r.list EXCEPT !.front = r.node,
                                       !.list_start = r.node,
                                       !.list_end = r.node],
              heap  |-> r.heap,
              abort |-> FALSE]

\* ------------------------------------------------------------ destructor
\* a dereference of node n is defined only for a node that is not released
Released(fr, n) == n = Null \/ n \in fr

\* what is left when Node_free touches a released node: undefined behaviour
Faulted(l, h, fr) == [list |-> l, heap |-> h, freed |-> fr, fault |-> TRUE]

\* Node_free that leaves *curr (front) on the node it releases
Node_free_keeps_front(l, h, fr) ==
    LET temp == l.front
    IN  IF Released(fr, temp) THEN Faulted(l, h, fr)
        ELSE IF l.capacity > 1 /\ Released(fr, h[temp].next) THEN Faulted(l, h, fr)
        ELSE
    LET h1 == IF l.capacity > 1
              THEN [h EXCEPT ![h[temp].next].prev = Null]
              ELSE h
        l1 == l
        l2 == IF l.capacity > 1 /\ temp = l.list_start
              THEN [l1 EXCEPT !.list_start = h1[temp].next] ELSE l1
        l3 == IF l.capacity > 1 /\ temp = l2.list_end
              THEN [l2 EXCEPT !.list_end = h1[temp].prev] ELSE l2
    IN  [list  |-> [l3 EXCEPT !.capacity = @ - 1],
         heap  |-> [h1 EXCEPT ![temp] = [elem |-> Null, next |-> Null, prev |-> Null]],
         freed |-> fr \cup {temp},
         fault |-> FALSE]

\* Node_free(list, &list->front): unlink the first node and release it
Node_free(l, h, fr) ==
    LET temp == l.front
    IN  IF Released(fr, temp) THEN Faulted(l, h, fr)
        ELSE IF l.capacity > 1 /\ Released(fr, h[temp].next) THEN Faulted(l, h, fr)
        ELSE
    LET h1 == IF l.capacity > 1
              THEN [h EXCEPT ![h[temp].next].prev = Null]
              ELSE h
        l1 == IF l.capacity > 1 THEN [l EXCEPT !.front = h[temp].next] ELSE l
        l2 == IF l.capacity > 1 /\ temp = l.list_start
              THEN [l1 EXCEPT !.list_start = h1[temp].next] ELSE l1
        l3 == IF l.capacity > 1 /\ temp = l2.list_end
              THEN [l2 EXCEPT !.list_end = h1[temp].prev] ELSE l2
    IN  [list  |-> [l3 EXCEPT !.capacity = @ - 1],
         heap  |-> [h1 EXCEPT ![temp] = [elem |-> Null, next |-> Null, prev |-> Null]],
         freed |-> fr \cup {temp},
         fault |-> FALSE]

\* the while loop of DLinkedList_free
RECURSIVE free_loop(_, _, _)
free_loop(l, h, fr) ==
    IF l.capacity > 0
    THEN LET r == Node_free(l, h, fr)
         IN  IF r.fault THEN r ELSE free_loop(r.list, r.heap, r.freed)
    ELSE [list |-> l, heap |-> h, freed |-> fr, fault |-> FALSE]

DLinkedList_free(l, h, fr) ==
    LET r == free_loop(l, h, fr)
    IN  IF r.fault THEN r
        ELSE [list  |-> [r.list EXCEPT !.front = Null, !.tail = Null,
                                       !.list_start = Null, !.list_end = Null],
              heap  |-> r.heap,
              freed |-> r.freed,
              fault |-> FALSE]

\* ------------------------------------------------------------------ state
Init ==
    /\ list = NoList
    /\ heap = <<>>
    /\ freed = {}
    /\ status = "none"
    /\ ret = [op |-> "none", arg |-> 0, val |-> NoVal]
    /\ hint = 0
    /\ hist = <<>>
    /\ ref = <<>>

Outcome(abort) == IF abort THEN "aborted" ELSE "live"

DoNew(n) ==
    /\ status = "none"
    /\ LET r == DLinkedList_new(n)
       IN  /\ list' = r.list
           /\ heap' = r.heap
           /\ status' = Outcome(r.abort)
    /\ hint' = n
    /\ ret' = [op |-> "new", arg |-> n, val |-> NoVal]
    /\ UNCHANGED <<freed, hist, ref>>

DoFree ==
    /\ status = "live"
    /\ LET r == DLinkedList_free(list, heap, freed)
       IN  /\ list' = r.list
           /\ heap' = r.heap
           /\ freed' = r.freed
           /\ status' = IF r.fault THEN "fault" ELSE "freed"
    /\ ret' = [op |-> "free", arg |-> 0, val |-> NoVal]
    /\ UNCHANGED <<hint, hist, ref>>

DoLength ==
    /\ status = "live"
    /\ ret' = [op |-> "length", arg |-> 0, val |-> DLinkedList_length(list)]
    /\ UNCHANGED <<list, heap, freed, status, hint, hist, ref>>

DoGet(index) ==
    /\ status = "live"
    /\ LET r == DLinkedList_get(list, heap, index)
       IN  /\ ret' = [op |-> "get", arg |-> index, val |-> r.val]
           /\ status' = Outcome(r.abort)
    /\ UNCHANGED <<list, heap, freed, hint, hist, ref>>

DoFirst ==
    /\ status = "live"
    /\ ret' = [op |-> "first", arg |-> 0, val |-> DLinkedList_first(list, heap)]
    /\ UNCHANGED <<list, heap, freed, status, hint, hist, ref>>

DoLast ==
    /\ status = "live"
    /\ ret' = [op |-> "last", arg |-> 0, val |-> DLinkedList_last(list, heap)]
    /\ UNCHANGED <<list, heap, freed, status, hint, hist, ref>>

\* the reference sequence after set(index, elem)
RefSet(s, elem, index) ==
    IF index < 0 \/ index > Len(s) THEN s
    ELSE IF index = Len(s) THEN Append(s, elem)
    ELSE [s EXCEPT ![index + 1] = elem]

DoSet(elem, index) ==
    /\ status = "live"
    /\ Len(hist) < MaxOps
    /\ LET r == DLinkedList_set(list, heap, elem, index)
       IN  /\ list' = r.list
           /\ heap' = r.heap
           /\ status' = Outcome(r.abort)
    /\ ret' = [op |-> "set", arg |-> index, val |-> elem]
    /\ hist' = Append(hist, "set")
    /\ ref' = RefSet(ref, elem, index)
    /\ UNCHANGED <<freed, hint>>

DoAppend(elem) ==
    /\ status = "live"
    /\ Len(hist) < MaxOps
    /\ LET r == DLinkedList_append(list, heap, elem)
       IN  /\ list' = r.list
           /\ heap' = r.heap
           /\ status' = Outcome(r.abort)
    /\ ret' = [op |-> "append", arg |-> 0, val |-> elem]
    /\ hist' = Append(hist, "append")
    /\ ref' = Append(ref, elem)
    /\ UNCHANGED <<freed, hint>>

DoPrepend(elem) ==
    /\ status = "live"
    /\ Len(hist) < MaxOps
    /\ LET r == DLinkedList_prepend(list, heap, elem)
       IN  /\ list' = r.list
           /\ heap' = r.heap
           /\ status' = Outcome(r.abort)
    /\ ret' = [op |-> "prepend", arg |-> 0, val |-> elem]
    /\ hist' = Append(hist, "prepend")
    /\ ref' = <<elem>> \o ref
    /\ UNCHANGED <<freed, hint>>

DoRemove(index) ==
    /\ status = "live"
    /\ LET r == DLinkedList_remove(list, heap, index)
       IN  /\ list' = r.list
           /\ heap' = r.heap
           /\ status' = Outcome(r.abort)
    /\ ret' = [op |-> "remove", arg |-> 0, val |-> NoVal]
    /\ UNCHANGED <<freed, hint, hist, ref>>

DoRemovehi ==
    /\ status = "live"
    /\ LET r == DLinkedList_removehi(list, heap)
       IN  /\ list' = r.list
           /\ heap' = r.heap
           /\ status' = Outcome(r.abort)
    /\ ret' = [op |-> "removehi", arg |-> 0, val |-> NoVal]
    /\ UNCHANGED <<freed, hint, hist, ref>>

DoRemovelo ==
    /\ status = "live"
    /\ LET r == DLinkedList_removelo(list, heap)
       IN  /\ list' = r.list
           /\ heap' = r.heap
           /\ status' = Outcome(r.abort)
    /\ ret' = [op |-> "removelo", arg |-> 0, val |-> NoVal]
    /\ UNCHANGED <<freed, hint, hist, ref>>

\* the indices a caller may pass in the current state, in and out of range
Indices == (-1)..(list.size + 1)

Next ==
    \/ \E n \in Hints : DoNew(n)
    \/ DoFree
    \/ DoLength
    \/ \E i \in Indices : DoGet(i)
    \/ DoFirst
    \/ DoLast
    \/ \E e \in Elems, i \in Indices : DoSet(e, i)
    \/ \E e \in Elems : DoAppend(e)
    \/ \E e \in Elems : DoPrepend(e)
    \/ \E i \in Indices : DoRemove(i)
    \/ DoRemovehi
    \/ DoRemovelo

Spec == Init /\ [][Next]_vars

TypeOK ==
    /\ status \in {"none", "live", "aborted", "freed", "fault"}
    /\ Len(hist) <= MaxOps

\* ------------------------------------------------- vocabulary of the claims
OnlyCalls(names) == \A i \in 1..Len(hist) : hist[i] \in names

\* what get(0), ..., get(size - 1) return
Contents(l, h) == [i \in 1..l.size |-> DLinkedList_get(l, h, i - 1).val]

\* a step that is a call of the mutator op
Called(op) == hist' = Append(hist, op) /\ ret'.op = op

\* C1: after create and any sequence of calls, before destroy,
\* 0 <= size <= capacity and capacity >= 1.
C1_SizeWithinCapacity ==
    status = "live" =>
        /\ 0 <= list.size
        /\ list.size <= list.capacity
        /\ list.capacity >= 1

C1_Witness ==
    /\ status = "live"
    /\ list.size = list.capacity
    /\ list.capacity > Max(hint, 1)
    /\ \E i \in 1..Len(hist) : hist[i] = "append"
    /\ \E i \in 1..Len(hist) : hist[i] = "prepend"

\* C2: after any sequence of append and prepend calls on a fresh list,
\* get(0..size-1) reads back the reference sequence (append adds on the right,
\* prepend on the left); with hint 2, append, append, append, prepend ends
\* with size 4 and capacity 4.
C2_OrderMatchesReference ==
    (status = "live" /\ OnlyCalls({"append", "prepend"})) =>
        /\ Contents(list, heap) = ref
        /\ (hint = 2 /\ hist = <<"append", "append", "append", "prepend">>) =>
               (list.size = 4 /\ list.capacity = 4)

\* C3: after n > hint appends on a fresh list, get(i) returns the i-th
\* appended element for every i in [0, n).
C3_AppendOrder ==
    (status = "live" /\ OnlyCalls({"append"}) /\ Len(hist) > hint) =>
        \A i \in 0..(Len(hist) - 1) :
            DLinkedList_get(list, heap, i) = [abort |-> FALSE, val |-> ref[i + 1]]

\* C4: on a fresh list with hint h, each of the first max(h,1) appends
\* allocates no node and each later append allocates exactly one, so after
\* n > h appends the capacity (and the number of nodes) is exactly n.
C4_AppendCapacity ==
    [][ (status = "live" /\ Called("append") /\ OnlyCalls({"append"})) =>
            /\ status' = "live"
            /\ Len(heap') = Len(heap) + (IF Len(hist) < Max(hint, 1) THEN 0 ELSE 1)
            /\ Len(hist') > hint =>
                   (list'.capacity = Len(hist') /\ Len(heap') = Len(hist'))
      ]_vars

C4_Witness ==
    /\ status = "live"
    /\ hint >= 2
    /\ OnlyCalls({"append"})
    /\ Len(hist) > hint
    /\ list.capacity = Len(hist)

\* C5: prepending n >= 1 elements to a fresh list completes without a
\* precondition failure, get(i) is the (n-i)-th prepended element, and the
\* capacity ends at max(n, max(h,1)).
C5_PrependOrder ==
    (Len(hist) >= 1 /\ OnlyCalls({"prepend"})) =>
        /\ ret.op = "prepend" => status = "live"
        /\ status = "live" =>
            /\ \A i \in 0..(Len(hist) - 1) :
                   DLinkedList_get(list, heap, i)
                       = [abort |-> FALSE, val |-> ref[i + 1]]
            /\ list.capacity = Max(Len(hist), Max(hint, 1))

\* C6: after n >= 1 appends on a fresh list, length() is n, first() is the
\* first appended element, last() the last one and get(1) the second one.
C6_AppendRoundTrip ==
    (status = "live" /\ OnlyCalls({"append"}) /\ Len(hist) >= 1) =>
        /\ DLinkedList_length(list) = Len(hist)
        /\ DLinkedList_first(list, heap) = ref[1]
        /\ DLinkedList_last(list, heap) = ref[Len(hist)]
        /\ Len(hist) >= 2 => DLinkedList_get(list, heap, 1).val = ref[2]

\* C7: set(index, elem) with index == size does what append(elem) does: size
\* grows by exactly 1 and get(old size) then returns elem.
C7_SetAtSizeAppends ==
    [][ (status = "live" /\ Called("set") /\ ret'.arg = list.size) =>
            /\ status' = "live"
            /\ list'.size = list.size + 1
            /\ DLinkedList_get(list', heap', list.size)
                   = [abort |-> FALSE, val |-> ret'.val]
            /\ [list |-> list', heap |-> heap', abort |-> FALSE]
                   = DLinkedList_append(list, heap, ret'.val)
      ]_vars

\* C8: set(index, elem) with 0 <= index < size makes get(index) return elem,
\* leaves get(j) as it was for every j # index, and changes neither size,
\* capacity, front, tail, list_start, list_end nor any link.
C8_SetInPlace ==
    [][ (status = "live" /\ Called("set") /\ 0 <= ret'.arg /\ ret'.arg < list.size) =>
            /\ status' = "live"
            /\ DLinkedList_get(list', heap', ret'.arg)
                   = [abort |-> FALSE, val |-> ret'.val]
            /\ \A j \in 0..(list.size - 1) :
                   j # ret'.arg =>
                       DLinkedList_get(list', heap', j) = DLinkedList_get(list, heap, j)
            /\ list' = list
            /\ Len(heap') = Len(heap)
            /\ \A n \in 1..Len(heap) :
                   heap'[n].next = heap[n].next /\ heap'[n].prev = heap[n].prev
      ]_vars

C8_Witness ==
    /\ status = "live"
    /\ ret.op = "set"
    /\ 0 < ret.arg
    /\ ret.arg < list.size - 1
    /\ DLinkedList_get(list, heap, ret.arg).val = ret.val
    /\ DLinkedList_get(list, heap, 0).val # ret.val

\* C9: get(index) with index < 0 or index >= size aborts in every state,
\* empty or not, returns no value and leaves the container as it was.
C9_GetOutOfRange ==
    [][ (status = "live" /\ ret'.op = "get"
            /\ (ret'.arg < 0 \/ ret'.arg >= list.size)) =>
            /\ status' = "aborted"
            /\ ret'.val = NoVal
            /\ list' = list
            /\ heap' = heap
      ]_vars

C9_Witness ==
    /\ status = "aborted"
    /\ ret.op = "get"
    /\ list.size >= 1
    /\ ret.arg = list.size

\* C10: first() and last() never abort and never change the container; on an
\* empty list they return NULL, otherwise first() is get(0) and last() is
\* get(size - 1).
C10_FirstLast ==
    [][ (status = "live" /\ ret'.op \in {"first", "last"}) =>
            /\ status' = "live"
            /\ list' = list
            /\ heap' = heap
            /\ freed' = freed
            /\ list.size = 0 => ret'.val = Null
            /\ list.size > 0 =>
                   DLinkedList_get(list, heap,
                                   IF ret'.op = "first" THEN 0 ELSE list.size - 1)
                       = [abort |-> FALSE, val |-> ret'.val]
      ]_vars

C10_Witness ==
    /\ status = "live"
    /\ ret.op = "last"
    /\ list.size >= 2
    /\ ret.val \in Elems
    /\ DLinkedList_first(list, heap) # ret.val

\* ----------------------------------------------------- shape of the pool
\* the nodes met from front by following next, capacity of them
Chain(l, h) == [i \in 1..l.capacity |-> walk_next(h, l.front, i - 1)]

\* the pool is one bidirectional chain of exactly capacity nodes, front..tail
PoolIsOneChain(l, h) ==
    LET c == Chain(l, h)
    IN  /\ l.capacity >= 1
        /\ Len(h) = l.capacity
        /\ \A i \in 1..l.capacity : c[i] # Null
        /\ {c[i] : i \in 1..l.capacity} = 1..Len(h)
        /\ c[1] = l.front
        /\ c[l.capacity] = l.tail
        /\ h[l.front].prev = Null
        /\ h[l.tail].next = Null
        /\ \A i \in 1..(l.capacity - 1) :
               h[c[i]].next = c[i + 1] /\ h[c[i + 1]].prev = c[i]

\* the place of node n in the chain (0 when it is not a node of it)
RECURSIVE PlaceFrom(_, _, _, _, _)
PlaceFrom(h, node, n, i, last) ==
    IF node = Null \/ i > last THEN 0
    ELSE IF node = n THEN i
    ELSE PlaceFrom(h, h[node].next, n, i + 1, last)

PlaceOf(l, h, n) == PlaceFrom(h, l.front, n, 1, l.capacity)

\* C11: create(hint), hint >= 0, gives size 0, capacity max(hint, 1), a pool
\* of exactly capacity nodes with empty element slots wired into one chain
\* from front to tail, and list_start == list_end == front.
C11_CreateShape ==
    (ret.op = "new" /\ hint >= 0) =>
        /\ status = "live"
        /\ list.size = 0
        /\ list.capacity = Max(hint, 1)
        /\ PoolIsOneChain(list, heap)
        /\ \A n \in 1..Len(heap) : heap[n].elem = Null
        /\ list.list_start = list.front
        /\ list.list_end = list.front

C11_Witness ==
    /\ ret.op = "new"
    /\ status = "live"
    /\ hint >= 2
    /\ list.capacity = hint
    /\ list.front # list.tail

\* C12: remove(index), removeHi() and removeLo() are no-ops: size, capacity,
\* front, tail, list_start, list_end, every link and every element slot are
\* the same after the call as before it.
C12_RemoveIsNoOp ==
    [][ (status = "live" /\ ret'.op \in {"remove", "removehi", "removelo"}) =>
            /\ status' = "live"
            /\ list' = list
            /\ heap' = heap
            /\ freed' = freed
      ]_vars

C12_Witness ==
    /\ status = "live"
    /\ ret.op = "removehi"
    /\ list.size >= 2
    /\ heap[list.list_end].elem # Null

\* C13: destroy, from any state, terminates, releases each of the capacity
\* pooled nodes exactly once whatever the size, never touches a node it has
\* already released, and leaves a null handle with capacity 0.
C13_DestroyReleasesPool ==
    [][ (status = "live" /\ ret'.op = "free") =>
            /\ status' = "freed"
            /\ freed = {}
            /\ freed' = 1..Len(heap)
            /\ Cardinality(freed') = list.capacity
            /\ list'.capacity = 0
            /\ list'.front = Null /\ list'.tail = Null
            /\ list'.list_start = Null /\ list'.list_end = Null
      ]_vars

C13_Witness ==
    /\ status = "freed"
    /\ list.size >= 1
    /\ Cardinality(freed) > list.size

\* C14: in every state the pool is one unbroken bidirectional chain of
\* exactly capacity nodes (front.prev and tail.next null, tail capacity-1
\* next-hops after front, n.next.prev == n), and list_start and list_end are
\* nodes of that chain with list_start at or before list_end.
C14_PoolChain ==
    status = "live" =>
        /\ PoolIsOneChain(list, heap)
        /\ PlaceOf(list, heap, list.list_start) >= 1
        /\ PlaceOf(list, heap, list.list_end) >= 1
        /\ PlaceOf(list, heap, list.list_start) <= PlaceOf(list, heap, list.list_end)

C14_Witness ==
    /\ status = "live"
    /\ list.capacity > Max(hint, 1) + 1
    /\ \E i \in 1..Len(hist) : hist[i] = "prepend"
    /\ hist[Len(hist)] = "append"
    /\ PlaceOf(list, heap, list.list_end) = list.capacity

\* the nodes of the logical window list_start..list_end
Window(l, h) ==
    LET a == PlaceOf(l, h, l.list_start)
        b == PlaceOf(l, h, l.list_end)
    IN  {n \in 1..Len(h) :
            LET p == PlaceOf(l, h, n) IN p >= a /\ p <= b}

\* the nodes whose element slot the step has written (new nodes included)
Written ==
    {n \in 1..Len(heap') : n > Len(heap) \/ heap'[n].elem # heap[n].elem}

\* C15: every pooled node outside the window, and the anchor node while
\* size == 0, has an empty element slot, and an insertion writes only the
\* slot of a node that is inside the window after the call.
C15_SpareSlotsEmpty ==
    [][ status' = "live" =>
            /\ \A n \in 1..Len(heap') :
                   n \notin Window(list', heap') => heap'[n].elem = Null
            /\ list'.size = 0 => heap'[list'.list_start].elem = Null
            /\ ret'.op \in {"append", "prepend", "set"} =>
                   Written \subseteq Window(list', heap')
      ]_vars

\* the step changes neither the number of nodes nor any next/prev link
LinksUnchanged ==
    /\ Len(heap') = Len(heap)
    /\ \A n \in 1..Len(heap) :
           heap'[n].next = heap[n].next /\ heap'[n].prev = heap[n].prev

\* C16: an append or prepend allocates exactly one node (capacity + 1) if
\* and only if size == capacity and size > 0 before the call, and otherwise
\* leaves capacity as it was; length, get, first, last and set with
\* index < size change neither capacity nor any link.
C16_GrowthOnlyWhenFull ==
    [][ status = "live" =>
            /\ (Called("append") \/ Called("prepend")) =>
                   IF list.size = list.capacity /\ list.size > 0
                   THEN /\ status' = "live"
                        /\ list'.capacity = list.capacity + 1
                        /\ Len(heap') = Len(heap) + 1
                   ELSE /\ list'.capacity = list.capacity
                        /\ Len(heap') = Len(heap)
            /\ (\/ ret'.op \in {"length", "get", "first", "last"}
                \/ (Called("set") /\ 0 <= ret'.arg /\ ret'.arg < list.size)) =>
                   /\ list'.capacity = list.capacity
                   /\ LinksUnchanged
      ]_vars

C16_Witness ==
    /\ status = "live"
    /\ ret.op = "prepend"
    /\ hint = 2
    /\ list.capacity = 4
    /\ Len(heap) = 4
    /\ \E i \in 1..Len(hist) : hist[i] = "append"

\* C17: for 0 <= index < size, search(index) returns the node index
\* next-hops after list_start; it starts from list_start when
\* index < size/2 and from list_end otherwise, and makes at most
\* floor(size/2) hops, none for index 0 and index size-1.
C17_SearchFindsIndex ==
    status = "live" =>
        \A index \in 0..(list.size - 1) :
            LET w == search_walk(list, index)
                start == IF w.from = "list_start" THEN list.list_start
                                                  ELSE list.list_end
            IN  /\ search(list, heap, index) # Null
                /\ search(list, heap, index) = walk_next(heap, list.list_start, index)
                /\ search(list, heap, index) =
                       (IF w.from = "list_start"
                        THEN walk_next(heap, start, w.hops)
                        ELSE walk_prev(heap, start, w.hops))
                /\ start = (IF index < list.size \div 2 THEN list.list_start
                                                        ELSE list.list_end)
                /\ w.hops <= list.size \div 2
                /\ index \in {0, list.size - 1} => w.hops = 0

C17_Witness ==
    /\ status = "live"
    /\ list.size = 4
    /\ search_walk(list, 1) = [from |-> "list_start", hops |-> 1]
    /\ search(list, heap, 1) \notin {list.list_start, list.list_end}
    /\ search(list, heap, 2) = heap[list.list_end].prev

\* C18: the window holds exactly max(size, 1) nodes: list_end lies
\* max(size,1)-1 next-hops after list_start, so size == 0 gives
\* list_start == list_end and size == capacity gives list_start == front
\* and list_end == tail.
C18_WindowLength ==
    status = "live" =>
        /\ walk_next(heap, list.list_start, Max(list.size, 1) - 1) = list.list_end
        /\ Cardinality(Window(list, heap)) = Max(list.size, 1)
        /\ list.size = 0 => list.list_start = list.list_end
        /\ list.size = list.capacity =>
               (list.list_start = list.front /\ list.list_end = list.tail)

C18_Witness ==
    /\ status = "live"
    /\ hint = 2
    /\ list.size = 1
    /\ list.list_end # list.tail
    /\ ret.op = "append"

====
